---- MODULE Spec2Model ----
(***************************************************************************)
(* A model of Luma::PPCEmitter (src/luma.hpp): the code buffer with its    *)
(* two growth modes, the data directives, the branch/label fixup and the   *)
(* load-immediate pseudo-ops.                                              *)
(*                                                                         *)
(* Pointers are integers (the intptr_t view of an address).  A 32-bit word *)
(* is the set of the positions (0 = least significant) of its 1 bits, so   *)
(* that |, & and ~ are union, intersection and complement.  Memory is a    *)
(* map from byte addresses to bytes; words are laid out big-endian, the    *)
(* native order of the PowerPC hosts the emitter targets.                  *)
(*                                                                         *)
(* Every operation is a set-valued operator on an emitter record (the set  *)
(* of states the call can end in) and an action that applies it to the     *)
(* variables.  An access outside every live allocation is undefined        *)
(* behaviour: it either goes through on whatever memory is there or stops  *)
(* the process ("crashed"), which is not the emitter's own panic.          *)
(***************************************************************************)
EXTENDS Integers, Sequences, FiniteSets, TLC

\* ------------------------------------------------------------- bounds
\* Largest buffer size and grow step the caller asks for, in words.
MaxWords == 2
\* Number of emitter calls made after construction.
MaxOps == 3
\* Label tokens the caller holds on to at the same time.
MaxLabels == 1
\* What memory holds before the emitter writes it.
Junk == 204

\* ------------------------------------------------ program constants
nullptr == 0
INT16_MIN == -32768
INT16_MAX == 32767
INT26_MIN == -33554432
INT26_MAX == 33554431

FixedSize == "FixedSize"
AutoGrow == "AutoGrow"
Branch14 == "Branch14"
Branch24 == "Branch24"

\* -------------------------------------------------------- the machine
\* Bytes of memory modelled behind each base address.
RegionCap == (MaxWords + 2) * 4
\* Two blocks operator new can hand out and one array the caller owns, each
\* aligned as operator new aligns; they lie further apart than a 14-bit, resp.
\* 24-bit, displacement reaches.
HeapLow == 64 * 4
HeapMid == HeapLow + 2^16
UserBase == HeapLow + 2^26
HeapRegions == {HeapLow, HeapMid}
Regions == HeapRegions \cup {UserBase}
Tracked == UNION {b..(b + RegionCap - 1) : b \in {nullptr} \cup Regions}

VARIABLES growMode, code, currentPointer, reservedSize, autoGrowSize,
          mem, heap, status, labels, last, nops

vars == <<growMode, code, currentPointer, reservedSize, autoGrowSize,
          mem, heap, status, labels, last, nops>>

\* ------------------------------------------------------------- words
Bits(n) == {i \in 0..30 : (n \div 2^i) % 2 = 1}
Shl(w, k) == {i + k : i \in {j \in w : j + k <= 31}}
\* A word given by its two halfwords.
Word(hi, lo) == Bits(lo) \cup Shl(Bits(hi), 16)
\* (uint32_t) (n & mask) for a mask below 2^width, n of either sign.
Masked(n, mask, width) == Bits(n % (2^width)) \cap Bits(mask)
\* Bits lo..hi of w as a number.
Field(w, lo, hi) ==
    LET f[j \in lo..(hi + 1)] ==
            IF j > hi THEN 0 ELSE (IF j \in w THEN 2^(j - lo) ELSE 0) + f[j + 1]
    IN f[lo]
WordBytes(w) == <<Field(w, 24, 31), Field(w, 16, 23), Field(w, 8, 15), Field(w, 0, 7)>>
BytesWord(bs) ==
    Shl(Bits(bs[1]), 24) \cup Shl(Bits(bs[2]), 16) \cup Shl(Bits(bs[3]), 8) \cup Bits(bs[4])

\* ------------------------------------------------------------ memory
Load(m, addr) == IF addr \in DOMAIN m THEN m[addr] ELSE Junk
\* Store writing a zero byte after the value as well.
StoreSpill(m, addr, bs) ==
    [a \in DOMAIN m |-> IF a >= addr /\ a < addr + Len(bs) THEN bs[a - addr + 1]
                        ELSE IF a = addr + Len(bs) THEN 0 ELSE m[a]]
Store(m, addr, bs) ==
    [a \in DOMAIN m |-> IF a >= addr /\ a < addr + Len(bs) THEN bs[a - addr + 1] ELSE m[a]]
WordAt(m, addr) ==
    BytesWord(<<Load(m, addr), Load(m, addr + 1), Load(m, addr + 2), Load(m, addr + 3)>>)
\* The access [addr, addr + n) lies inside a live allocation.
Valid(h, addr, n) ==
    \E r \in Regions : h[r].st = "live" /\ r <= addr /\ addr + n <= r + h[r].size
\* The outcomes of an access: e when it is valid, else e or a crash.
crashed(e) == [e EXCEPT !.status = "crashed"]
access(e0, e, ok) == IF ok THEN {e} ELSE {e, crashed(e0)}

\* ------------------------------------------------------------ buffer
getCodeSize(e) == e.cur - e.code

\* reallocate copying all but the last of the used bytes.
reallocateShort(e, r) ==
    LET currentSize == getCodeSize(e)
        newSize == e.reserved + e.grow
        copied == [a \in DOMAIN e.mem |->
                     IF a >= r /\ a < r + currentSize - 1
                     THEN Load(e.mem, e.code + (a - r)) ELSE e.mem[a]]
        held == [e.heap EXCEPT ![r] = [st |-> "live", size |-> newSize]]
        freed == IF e.code \in Regions /\ e.code # r
                 THEN [held EXCEPT ![e.code].st = "released"] ELSE held
        e2 == [e EXCEPT !.mem = copied, !.heap = freed, !.code = r,
                        !.cur = r + currentSize, !.reserved = newSize]
    IN access(e, e2, currentSize <= newSize
                     /\ (currentSize = 0 \/ Valid(e.heap, e.code, currentSize)))

\* reallocate leaving the cursor at the start of the new block.
reallocateRewound(e, r) ==
    LET currentSize == getCodeSize(e)
        newSize == e.reserved + e.grow
        copied == [a \in DOMAIN e.mem |->
                     IF a >= r /\ a < r + currentSize
                     THEN Load(e.mem, e.code + (a - r)) ELSE e.mem[a]]
        held == [e.heap EXCEPT ![r] = [st |-> "live", size |-> newSize]]
        freed == IF e.code \in Regions /\ e.code # r
                 THEN [held EXCEPT ![e.code].st = "released"] ELSE held
        e2 == [e EXCEPT !.mem = copied, !.heap = freed, !.code = r,
                        !.cur = r, !.reserved = newSize]
    IN access(e, e2, currentSize <= newSize
                     /\ (currentSize = 0 \/ Valid(e.heap, e.code, currentSize)))

\* The AutoGrow block of write: a new block, the copy, the release of the old.
reallocate(e, r) ==
    LET currentSize == getCodeSize(e)
        newSize == e.reserved + e.grow
        copied == [a \in DOMAIN e.mem |->
                     IF a >= r /\ a < r + currentSize
                     THEN Load(e.mem, e.code + (a - r)) ELSE e.mem[a]]
        held == [e.heap EXCEPT ![r] = [st |-> "live", size |-> newSize]]
        freed == IF e.code \in Regions /\ e.code # r
                 THEN [held EXCEPT ![e.code].st = "released"] ELSE held
        e2 == [e EXCEPT !.mem = copied, !.heap = freed, !.code = r,
                        !.cur = r + currentSize, !.reserved = newSize]
    IN access(e, e2, currentSize <= newSize
                     /\ (currentSize = 0 \/ Valid(e.heap, e.code, currentSize)))

grown(mode, e, n) ==
    IF mode = AutoGrow /\ getCodeSize(e) + n >= e.reserved
    THEN UNION {reallocate(e, r) :
                  r \in {x \in HeapRegions : /\ e.heap[x].st # "live"
                                             /\ e.reserved + e.grow <= RegionCap}}
    ELSE {e}

\* write <T> (val): bs are the sizeof(T) bytes of val.
write(mode, e, bs) ==
    IF e.status # "running" THEN {e}
    ELSE UNION {
        IF g.status # "running" THEN {g}
        ELSE access(g, [g EXCEPT !.mem = Store(g.mem, g.cur, bs), !.cur = g.cur + Len(bs)],
                    Valid(g.heap, g.cur, Len(bs)))
        : g \in {x \in grown(mode, e, Len(bs)) :
                    x.status # "running" \/ getCodeSize(x) + Len(bs) <= RegionCap}}

write32(mode, e, w) == write(mode, e, WordBytes(w))

\* write (T* array, int size), ds and every two-word pseudo-op: one write after another.
RECURSIVE writeAll(_, _, _)
writeAll(mode, es, chunks) ==
    IF chunks = <<>> THEN es
    ELSE writeAll(mode, UNION {write(mode, e, Head(chunks)) : e \in es}, Tail(chunks))

panic(e) == [e EXCEPT !.status = "panic"]


\* --------------------------------------------------- the emitter object
NoLabel == [first |-> nullptr, second |-> "none"]

\* autoGrowSize's default (64 KiB in the source), at the scale of the model.
DefaultAutoGrowSize == MaxWords * 4
\* Sizes a caller passes: every word-aligned one up to MaxWords words, and
\* one that is not word-aligned.
AlignedSizes == {4 * k : k \in 0..MaxWords}
Sizes == AlignedSizes \cup {6}

Self == [code |-> code, cur |-> currentPointer, reserved |-> reservedSize,
         grow |-> autoGrowSize, mem |-> mem, heap |-> heap, status |-> status]

Commit(e) ==
    /\ code' = e.code
    /\ currentPointer' = e.cur
    /\ reservedSize' = e.reserved
    /\ autoGrowSize' = e.grow
    /\ mem' = e.mem
    /\ heap' = e.heap
    /\ status' = e.status

\* The record of the call just made: its name, its arguments (a, and for an
\* append its size b), the label it returned or was given, the buffer geometry
\* it started from, and whether it repeats the call before it.
Did(op, a, b, lab) ==
    /\ last' = [op |-> op, a |-> a, b |-> b, label |-> lab, preCur |-> currentPointer,
                preCode |-> code, preReserved |-> reservedSize,
                again |-> (last.op = op /\ last.a = a /\ last.label = lab)]
    /\ nops' = nops + 1

\* CanCall for a panic that returns to its caller.
CanCallAfterPanic == status # "crashed" /\ nops < MaxOps
CanCall == status = "running" /\ nops < MaxOps

\* PPCEmitter (bufferSize): the state a constructed emitter is in.
PPCEmitter(mode, bufferSize, r) ==
    LET untouched == [a \in Tracked |-> Junk]
        owned == [x \in Regions |->
                    IF x = UserBase THEN [st |-> "live", size |-> MaxWords * 4]
                    ELSE [st |-> "free", size |-> 0]]
        e0 == [code |-> nullptr, cur |-> nullptr, reserved |-> bufferSize,
               grow |-> DefaultAutoGrowSize, mem |-> untouched, heap |-> owned,
               status |-> "running"]
    IN IF bufferSize = 0 THEN e0
       ELSE IF bufferSize % 4 # 0 THEN panic(e0)
       ELSE [e0 EXCEPT !.code = r, !.cur = r,
                       !.heap = [owned EXCEPT ![r] = [st |-> "live", size |-> bufferSize]]]

Init ==
    \E mode \in {FixedSize, AutoGrow}, bufferSize \in Sizes, r \in HeapRegions :
        LET e == PPCEmitter(mode, bufferSize, r) IN
        /\ growMode = mode
        /\ code = e.code
        /\ currentPointer = e.cur
        /\ reservedSize = e.reserved
        /\ autoGrowSize = e.grow
        /\ mem = e.mem
        /\ heap = e.heap
        /\ status = e.status
        /\ labels = {}
        /\ nops = 0
        /\ last = [op |-> "PPCEmitter", a |-> bufferSize, b |-> 0, label |-> NoLabel,
                   preCur |-> nullptr, preCode |-> nullptr, preReserved |-> 0,
                   again |-> FALSE]

setBufferTo(e, pointer, bufferSize) ==
    LET e2 == [e EXCEPT !.code = pointer, !.cur = pointer, !.reserved = bufferSize]
    IN IF bufferSize % 4 # 0 THEN panic(e2) ELSE e2

setBuffer(pointer, bufferSize) ==
    /\ CanCall
    /\ Commit(setBufferTo(Self, pointer, bufferSize))
    /\ Did("setBuffer", pointer, bufferSize, NoLabel)
    /\ UNCHANGED <<growMode, labels>>

\* setAutoGrowSizeTo without the alignment test.
setAutoGrowSizeToAny(e, size) == [e EXCEPT !.grow = size]
setAutoGrowSizeTo(e, size) ==
    LET e2 == [e EXCEPT !.grow = size]
    IN IF size % 4 # 0 THEN panic(e2) ELSE e2

setAutoGrowSize(size) ==
    /\ CanCall
    /\ Commit(setAutoGrowSizeTo(Self, size))
    /\ Did("setAutoGrowSize", size, 0, NoLabel)
    /\ UNCHANGED <<growMode, labels>>

\* ---------------------------------------------------- data directives
\* The size bytes of val, most significant first (val < 2^31).
bytesOf(val, size) ==
    [i \in 1..size |-> IF size - i >= 4 THEN 0 ELSE (val \div 256^(size - i)) % 256]

Emit(op, a, b, outcomes) ==
    /\ CanCall
    /\ \E e \in outcomes : Commit(e)
    /\ Did(op, a, b, NoLabel)
    /\ UNCHANGED <<growMode, labels>>

db(val) == Emit("db", val, 1, write(growMode, Self, bytesOf(val, 1)))
dh(val) == Emit("dh", val, 2, write(growMode, Self, bytesOf(val, 2)))
dw(val) == Emit("dw", val, 4, write(growMode, Self, bytesOf(val, 4)))
dd(val) == Emit("dd", val, 8, write(growMode, Self, bytesOf(val, 8)))

\* ds (str): the characters, then the terminator, a byte at a time.
dsTo(mode, e, str) == writeAll(mode, {e}, [i \in 1..(Len(str) + 1) |->
                                             IF i <= Len(str) THEN <<str[i]>> ELSE <<0>>])
ds(str) == Emit("ds", Len(str), Len(str) + 1, dsTo(growMode, Self, str))

alignTo(mode, e, bytes) ==
    IF bytes = 1 THEN {e}
    ELSE IF bytes < 1 THEN {panic(e)}
    ELSE LET remainder == e.cur % bytes
         IN writeAll(mode, {e}, [i \in 1..remainder |-> <<0>>])

align(bytes) == Emit("align", bytes, 0, alignTo(growMode, Self, bytes))


\* ------------------------------------------------------------ encoders
r0 == 0
Reg(r, k) == Shl(Bits(r), k)
LinkBit(link) == IF link THEN {0} ELSE {}

\* The words addi, addis and ori append; imm is the 16-bit pattern of the immediate.
addiWord(dest, src, imm) == Word(14336, 0) \cup Reg(dest, 21) \cup Reg(src, 16) \cup Bits(imm)
addisWord(dest, src, imm) == Word(15360, 0) \cup Reg(dest, 21) \cup Reg(src, 16) \cup Bits(imm)
oriWord(dest, src, imm) == Word(24576, 0) \cup Reg(src, 21) \cup Reg(dest, 16) \cup Bits(imm)
nopWord == oriWord(r0, r0, 0)

nop == Emit("nop", 0, 4, write32(growMode, Self, nopWord))

\* A uint32_t as its two halfwords, and <= on two of them.
U32(hi, lo) == [hi |-> hi, lo |-> lo]
ULe(x, y) == x.hi < y.hi \/ (x.hi = y.hi /\ x.lo <= y.lo)

\* li and lis: addi and addis on r0, with the low 16 bits of what they are given.
liWord(reg, imm) == addiWord(reg, r0, imm)
lisWord(reg, imm) == addisWord(reg, r0, imm)

\* liwWords taking li for every immediate of 16 bits.
liwWordsUnsigned(reg, imm) ==
    IF ULe(imm, U32(0, 65535)) \/ ULe(U32(65535, 32768), imm)
    THEN <<liWord(reg, imm.lo)>>
    ELSE IF imm.lo = 0
    THEN <<lisWord(reg, imm.hi)>>
    ELSE <<lisWord(reg, imm.hi), oriWord(reg, reg, imm.lo)>>

\* The words liw appends for the 32-bit immediate imm.
liwWords(reg, imm) ==
    IF ULe(imm, U32(0, 32767)) \/ ULe(U32(65535, 32768), imm)
    THEN <<liWord(reg, imm.lo)>>
    ELSE IF imm.lo = 0
    THEN <<lisWord(reg, imm.hi)>>
    ELSE <<lisWord(reg, imm.hi), oriWord(reg, reg, imm.lo)>>

liwTo(mode, e, reg, imm) ==
    LET ws == liwWords(reg, imm)
    IN writeAll(mode, {e}, [i \in 1..Len(ws) |-> WordBytes(ws[i])])

liw(reg, imm) ==
    Emit("liw", <<reg, imm.hi, imm.lo>>, 4 * Len(liwWords(reg, imm)),
         liwTo(growMode, Self, reg, imm))

\* ------------------------------------------------- register mnemonics
\* The Rc bit a setFlags template argument ORs into the word.
RcBit(setFlags) == IF setFlags THEN {0} ELSE {}
\* A value passed as a uint8_t argument.
U8(x) == x % 256

\* rlwinm's word: the shift is masked to five bits, mb and me are not.
rlwinmWord(dest, src, shift, mb, me, setFlags) ==
    Word(21504, 0) \cup Reg(src, 21) \cup Reg(dest, 16) \cup Shl(Bits(U8(shift) % 32), 11)
    \cup Shl(Bits(U8(mb)), 6) \cup Shl(Bits(U8(me)), 1) \cup RcBit(setFlags)

slwiWord(dest, src, shift, setFlags) == rlwinmWord(dest, src, shift, 0, 31 - shift, setFlags)
\* srwiWord rotating by the shift itself.
srwiWordUnrotated(dest, src, shift, setFlags) == rlwinmWord(dest, src, shift, shift, 31, setFlags)
srwiWord(dest, src, shift, setFlags) == rlwinmWord(dest, src, 32 - shift, shift, 31, setFlags)
clrlwiWord(dest, src, len, setFlags) == rlwinmWord(dest, src, 0, len, 31, setFlags)
clrrwiWord(dest, src, len, setFlags) == rlwinmWord(dest, src, 0, 0, 31 - len, setFlags)
rotlwiWord(dest, src, amount, setFlags) == rlwinmWord(dest, src, amount, 0, 31, setFlags)
rotrwiWord(dest, src, amount, setFlags) == rlwinmWord(dest, src, 32 - amount, 0, 31, setFlags)
extlwiWord(dest, src, n, b, setFlags) == rlwinmWord(dest, src, b, 0, n - 1, setFlags)
extrwiWord(dest, src, n, b, setFlags) == rlwinmWord(dest, src, b + n, 32 - n, 31, setFlags)

addWord(dest, src1, src2, setFlags) ==
    Word(31744, 532) \cup Reg(dest, 21) \cup Reg(src1, 16) \cup Reg(src2, 11) \cup RcBit(setFlags)
or_Word(dest, src1, src2, setFlags) ==
    Word(31744, 888) \cup Reg(src1, 21) \cup Reg(dest, 16) \cup Reg(src2, 11) \cup RcBit(setFlags)
mrWord(dest, src, setFlags) == or_Word(dest, src, src, setFlags)
\* cntlzw takes setFlags and does not use it.
cntlzwWord(dest, src, setFlags) == Word(31744, 52) \cup Reg(src, 21) \cup Reg(dest, 16)
\* addic and addic. are two primary opcodes; imm is the 16-bit pattern.
addicWord(dest, src, imm, setFlags) ==
    (IF ~setFlags THEN Word(12288, 0) ELSE Word(13312, 0))
    \cup Reg(dest, 21) \cup Reg(src, 16) \cup Bits(imm)

\* The words liu and setz append.
\* liuWords taking the single addi up to 0x8000 inclusive.
liuWordsInclusive(reg, imm) ==
    IF imm <= 32768 THEN <<liWord(reg, imm)>>
    ELSE <<liWord(reg, 0), oriWord(reg, reg, imm)>>
liuWords(reg, imm) ==
    IF imm < 32768 THEN <<liWord(reg, imm)>>
    ELSE <<liWord(reg, 0), oriWord(reg, reg, imm)>>
setzWords(dest, src) == <<cntlzwWord(dest, src, FALSE), srwiWord(dest, dest, 5, FALSE)>>

\* The word each one-word register mnemonic appends for the operands
\* t = <<dest, src, n, b, setFlags>>; imm16(t) is the immediate made of n and b.
imm16(t) == t[3] * 2048 + t[4]
Mnemonics ==
    {"rlwinm", "slwi", "srwi", "clrlwi", "clrrwi", "rotlwi", "rotrwi", "extlwi", "extrwi",
     "add", "or_", "mr", "cntlzw", "addic", "li", "lis"}
wordOf(op, t) ==
    CASE op = "rlwinm" -> rlwinmWord(t[1], t[2], t[3], t[4], 31 - t[4], t[5])
      [] op = "slwi" -> slwiWord(t[1], t[2], t[3], t[5])
      [] op = "srwi" -> srwiWord(t[1], t[2], t[3], t[5])
      [] op = "clrlwi" -> clrlwiWord(t[1], t[2], t[3], t[5])
      [] op = "clrrwi" -> clrrwiWord(t[1], t[2], t[3], t[5])
      [] op = "rotlwi" -> rotlwiWord(t[1], t[2], t[3], t[5])
      [] op = "rotrwi" -> rotrwiWord(t[1], t[2], t[3], t[5])
      [] op = "extlwi" -> extlwiWord(t[1], t[2], t[3], t[4], t[5])
      [] op = "extrwi" -> extrwiWord(t[1], t[2], t[3], t[4], t[5])
      [] op = "add" -> addWord(t[1], t[2], t[2], t[5])
      [] op = "or_" -> or_Word(t[1], t[2], t[1], t[5])
      [] op = "mr" -> mrWord(t[1], t[2], t[5])
      [] op = "cntlzw" -> cntlzwWord(t[1], t[2], t[5])
      [] op = "addic" -> addicWord(t[1], t[2], imm16(t), t[5])
      [] op = "li" -> liWord(t[1], imm16(t))
      [] op = "lis" -> lisWord(t[1], imm16(t))

\* A mnemonic called with the operands t: one write32 of its word.
mnemonic(op, t) == Emit(op, t, 4, write32(growMode, Self, wordOf(op, t)))
liu(t) ==
    LET ws == liuWords(t[1], imm16(t))
    IN Emit("liu", t, 4 * Len(ws),
            writeAll(growMode, {Self}, [i \in 1..Len(ws) |-> WordBytes(ws[i])]))
setz(t) ==
    LET ws == setzWords(t[1], t[2])
    IN Emit("setz", t, 4 * Len(ws),
            writeAll(growMode, {Self}, [i \in 1..Len(ws) |-> WordBytes(ws[i])]))


\* ------------------------------------------- arithmetic and float words
\* The base opcode (high and low halfword) of each three-GPR arithmetic mnemonic.
ArithOps ==
    {"add", "addo", "addc", "addco", "adde", "addeo", "subf", "subfo", "subfc", "subfco",
     "subfe", "subfeo", "mullw", "mullwo", "mulhw", "mulhwu", "divwu", "divwuo", "divw", "divwo"}
arithBase(op) ==
    CASE op = "add" -> Word(31744, 532)
      [] op = "addo" -> Word(31744, 1556)
      [] op = "addc" -> Word(31744, 20)
      [] op = "addco" -> Word(31744, 1044)
      [] op = "adde" -> Word(31744, 276)
      [] op = "addeo" -> Word(31744, 1300)
      [] op = "subf" -> Word(31744, 80)
      [] op = "subfo" -> Word(31744, 1104)
      [] op = "subfc" -> Word(31744, 16)
      [] op = "subfco" -> Word(31744, 1040)
      [] op = "subfe" -> Word(31744, 272)
      [] op = "subfeo" -> Word(31744, 1296)
      [] op = "mullw" -> Word(31744, 470)
      [] op = "mullwo" -> Word(31744, 982)
      [] op = "mulhw" -> Word(31744, 150)
      [] op = "mulhwu" -> Word(31744, 22)
      [] op = "divwu" -> Word(31744, 918)
      [] op = "divwuo" -> Word(31744, 1942)
      [] op = "divw" -> Word(31744, 982)
      [] op = "divwo" -> Word(31744, 2006)
arithWord(op, dest, src1, src2, setFlags) ==
    arithBase(op) \cup Reg(dest, 21) \cup Reg(src1, 16) \cup Reg(src2, 11) \cup RcBit(setFlags)

\* The base opcode of each four-operand float mnemonic.
FourOps ==
    {"fmadd", "fmadds", "fmsub", "fmsubs", "fnmadd", "fnmadds", "fnmsub", "fnmsubs", "fsel",
     "ps_madd", "ps_msub", "ps_nmadd", "ps_nmsub", "ps_sel"}
fourOpBase(op) ==
    CASE op = "fmadd" -> Word(64512, 58)
      [] op = "fmadds" -> Word(60416, 58)
      [] op = "fmsub" -> Word(64512, 56)
      [] op = "fmsubs" -> Word(60416, 56)
      [] op = "fnmadd" -> Word(64512, 62)
      [] op = "fnmadds" -> Word(60416, 62)
      [] op = "fnmsub" -> Word(64512, 60)
      [] op = "fnmsubs" -> Word(60416, 60)
      [] op = "fsel" -> Word(64512, 46)
      [] op = "ps_madd" -> Word(4096, 58)
      [] op = "ps_msub" -> Word(4096, 56)
      [] op = "ps_nmadd" -> Word(4096, 62)
      [] op = "ps_nmsub" -> Word(4096, 60)
      [] op = "ps_sel" -> Word(4096, 46)
\* fourOpWord with the third argument at bit 11 and the fourth at bit 6.
fourOpWordInOrder(op, dest, src1, src2, src3, setFlags) ==
    fourOpBase(op) \cup Reg(dest, 21) \cup Reg(src1, 16) \cup Reg(src2, 11) \cup Reg(src3, 6)
    \cup RcBit(setFlags)
\* (dest, src1, src2, src3), dest = src1 * src2 +- src3: src3 at bit 11, src2 at bit 6.
fourOpWord(op, dest, src1, src2, src3, setFlags) ==
    fourOpBase(op) \cup Reg(dest, 21) \cup Reg(src1, 16) \cup Reg(src3, 11) \cup Reg(src2, 6)
    \cup RcBit(setFlags)

\* The calls, on the operands t = <<dest, src1, src2, src3 or unused, setFlags>>.
arith(op, t) ==
    Emit(op, t, 4, write32(growMode, Self, arithWord(op, t[1], t[2], t[3], t[5])))
fourOp(op, t) ==
    Emit(op, t, 4, write32(growMode, Self, fourOpWord(op, t[1], t[2], t[3], t[4], t[5])))

\* ------------------------------------------------------------ branches
\* Condition ordinals: Lt, Gt, Eq, Os, Ge, Le, Ne, Oc.
Eq == 2
Ne == 6
\* The conditional branches the emitter is driven with.
Conds == {Eq, Ne}

bxWord(link) == Word(18432, 0) \cup LinkBit(link)
\* bcxWord setting the bit for the ordinals 4..7 instead.
bcxWordInverted(cond, link) ==
    LET shouldBitBeSet == cond > 3
        bit == cond % 4
    IN Word(16512, 0) \cup (IF shouldBitBeSet THEN {24} ELSE {}) \cup Shl(Bits(bit), 16)
       \cup LinkBit(link)
bcxWord(cond, link) ==
    LET shouldBitBeSet == cond <= 3
        bit == cond % 4
    IN Word(16512, 0) \cup (IF shouldBitBeSet THEN {24} ELSE {}) \cup Shl(Bits(bit), 16)
       \cup LinkBit(link)

\* bx <link> (): the label holds the cursor read before the word is written.
bxLabel(e) == [first |-> e.cur, second |-> Branch24]
bxTo(mode, e, link) == write32(mode, e, bxWord(link))

emitBranch14Label(e) == [first |-> e.cur, second |-> Branch14]
emitBranch14(mode, e, opcode) == write32(mode, e, opcode)
bcxTo(mode, e, cond, link) == emitBranch14(mode, e, bcxWord(cond, link))

\* The caller keeps the token; with MaxLabels in hand it lets the old ones go.
Keep(lab) == IF Cardinality(labels \cup {lab}) <= MaxLabels THEN labels \cup {lab} ELSE {lab}

Branch(op, a, lab, outcomes) ==
    /\ CanCall
    /\ \E e \in outcomes : Commit(e)
    /\ Did(op, a, 4, lab)
    /\ labels' = Keep(lab)
    /\ UNCHANGED growMode

b == Branch("b", 0, bxLabel(Self), bxTo(growMode, Self, FALSE))
bl == Branch("bl", 1, bxLabel(Self), bxTo(growMode, Self, TRUE))
bcx(cond, link) ==
    Branch(IF link THEN "bcl" ELSE "bc", cond, emitBranch14Label(Self),
           bcxTo(growMode, Self, cond, link))

\* Fits16 without its upper limit.
Fits16NoCeiling(x) == x >= INT16_MIN
Fits16(x) == x <= INT16_MAX /\ x >= INT16_MIN
\* Fits26 without its upper limit.
Fits26NoCeiling(x) == x >= INT26_MIN
Fits26(x) == x >= INT26_MIN /\ x <= INT26_MAX
\* Unaligned testing x & 1.
UnalignedOdd(x) == x % 2 # 0
\* x & 3
Unaligned(x) == x % 4 # 0

\* The word setLabel stores over old: the relative and the absolute form of
\* each branch type.
\* relWord14 storing the displacement in words, and relWord14 as an exclusive
\* or into the word as it is.
relWord14InWords(old, disp) == (old \ Bits(65534)) \cup Masked(disp \div 4, 65532, 16)
relWord14Xor(old, disp) ==
    LET field == Masked(disp, 65532, 16) IN (old \ field) \cup (field \ old)
relWord14(old, disp) == (old \ Bits(65534)) \cup Masked(disp, 65532, 16)
\* absWord14 leaving the AA bit as it is.
absWord14NoAA(old, address) == (old \ Bits(65532)) \cup Masked(address, 65532, 16)
absWord14(old, address) == (old \ Bits(65534)) \cup Masked(address, 65532, 16) \cup {1}
relWord24(old, disp) == (old \ Bits(67108862)) \cup Masked(disp, 67108860, 26)
\* absWord24 leaving the AA bit as it is.
absWord24NoAA(old, address) == (old \ Bits(67108860)) \cup Masked(address, 67108860, 26)
absWord24(old, address) == (old \ Bits(67108862)) \cup Masked(address, 67108860, 26) \cup {1}

\* bx <link> (void* address)
bxAddrTo(mode, e, link, address) ==
    LET cia == e.cur
        disp == address - cia
    IN IF Unaligned(address) THEN {panic(e)}
       ELSE IF Fits26(disp)
       THEN write32(mode, e, Word(18432, 0) \cup Masked(disp, 67108860, 26) \cup LinkBit(link))
       ELSE IF Fits26(address)
       THEN write32(mode, e, Word(18432, 0) \cup Masked(address, 67108860, 26) \cup {1}
                             \cup LinkBit(link))
       ELSE {panic(e)}

\* setLabel (label, address)
setLabelTo(e, label, address) ==
    LET instrAddress == label.first
        type == label.second
        disp == address - instrAddress
        old == WordAt(e.mem, instrAddress)
        patch(new) ==
            access(e, [e EXCEPT !.mem = Store(e.mem, instrAddress, WordBytes(new))],
                   Valid(e.heap, instrAddress, 4))
    IN IF Unaligned(disp) THEN {panic(e)}
       ELSE IF type = Branch14
       THEN IF Fits16(disp) THEN patch(relWord14(old, disp))
            ELSE IF Fits16(address) THEN patch(absWord14(old, address))
            ELSE {panic(e)}
       ELSE IF Fits26(disp) THEN patch(relWord24(old, disp))
            ELSE IF Fits26(address) THEN patch(absWord24(old, address))
            ELSE {panic(e)}

\* Addresses the caller passes as a branch target: the start of the first
\* block, the word after it and a place off the word grid; the last address a
\* 14-bit, resp. 24-bit, displacement reaches from there and the first it does
\* not; the least absolute 14-bit and 24-bit addresses.
Targets ==
    {HeapLow, HeapLow + 4, HeapLow + 6,
     HeapLow + (INT16_MAX - 3), HeapLow + (INT16_MAX + 1),
     HeapLow + (INT26_MAX - 3), HeapLow + (INT26_MAX + 1),
     INT16_MIN, INT26_MIN}

\* The targets of the branches to a known address: as above, less the 14-bit ones.
AddrTargets ==
    {HeapLow, HeapLow + 4, HeapLow + 6,
     HeapLow + (INT26_MAX - 3), HeapLow + (INT26_MAX + 1), INT26_MIN}

bAddr(link, address) ==
    /\ CanCall
    /\ \E e \in bxAddrTo(growMode, Self, link, address) : Commit(e)
    /\ Did(IF link THEN "bl(ptr)" ELSE "b(ptr)", address, 4, NoLabel)
    /\ UNCHANGED <<growMode, labels>>

setLabel(label, address) ==
    /\ CanCall
    /\ \E e \in setLabelTo(Self, label, address) : Commit(e)
    /\ Did("setLabel", address, 0, label)
    /\ UNCHANGED <<growMode, labels>>

\* -------------------------------------------------------------- loop
getCurr(e) == e.cur

\* loop (counter, iterations, f): body is the words f appends.  The anchor is
\* the cursor read after liw; the slot is the label bne returns.
loopTo(mode, e, counter, iterations, body) ==
    IF iterations = U32(0, 0) THEN {e}
    ELSE UNION {UNION {UNION {UNION {
             IF e4.status = "running"
             THEN setLabelTo(e4, emitBranch14Label(e3), getCurr(e1))
             ELSE {e4}
             : e4 \in bcxTo(mode, e3, Ne, FALSE)}
             : e3 \in write32(mode, e2, addicWord(counter, counter, 65535, TRUE))}
             : e2 \in writeAll(mode, {e1}, [i \in 1..Len(body) |-> WordBytes(body[i])])}
             : e1 \in liwTo(mode, e, counter, iterations)}

loop(counter, iterations, body) ==
    Emit("loop", <<counter, iterations.hi, iterations.lo, Len(body)>>,
         IF iterations = U32(0, 0) THEN 0
         ELSE 4 * (Len(liwWords(counter, iterations)) + Len(body) + 2),
         loopTo(growMode, Self, counter, iterations, body))

\* ------------------------------------------------------ specification
\* The buffer and the data directives.
NextBuffer ==
    \/ \E size \in Sizes : setBuffer(UserBase, size)
    \/ \E size \in {0, 2, 4} : setAutoGrowSize(size)
    \/ db(90)
    \/ dh(4660)
    \/ dw(305419896)
    \/ dd(74565)
    \/ ds(<<97>>)
    \/ \E n \in {-1, 0, 1, 2, 4, 8} : align(n)
    \/ nop

Spec == Init /\ [][NextBuffer]_vars

\* The branches that return a label, and setLabel, with db to leave the cursor
\* off a word boundary and nop and dw to put code and data around the branch.
NextBranch ==
    \/ db(90)
    \/ nop
    \/ b
    \/ bl
    \/ \E cond \in Conds, link \in BOOLEAN : bcx(cond, link)
    \/ \E label \in labels :
          \E address \in Targets \cup {currentPointer, label.first + 4} :
              setLabel(label, address)

SpecBranch == Init /\ [][NextBranch]_vars

\* The branches to an address known when they are emitted.
NextAddr ==
    \/ db(90)
    \/ \E address \in AddrTargets \cup {currentPointer + 4} : bAddr(FALSE, address)
    \/ \E address \in AddrTargets \cup {currentPointer + 4} : bAddr(TRUE, address)

SpecAddr == Init /\ [][NextAddr]_vars

\* liw on its own: a fresh emitter of MaxWords words and one call, its register
\* and its immediate drawn from the values around every comparison liw makes.
LiwRegs == {0, 3, 31}
LiwHalves == {0, 1, 4660, 32767, 32768, 65535}

InitLiw ==
    \E mode \in {FixedSize, AutoGrow}, reg \in LiwRegs, hi \in LiwHalves, lo \in LiwHalves :
        LET e == PPCEmitter(mode, MaxWords * 4, HeapLow) IN
        /\ growMode = mode
        /\ code = e.code
        /\ currentPointer = e.cur
        /\ reservedSize = e.reserved
        /\ autoGrowSize = e.grow
        /\ mem = e.mem
        /\ heap = e.heap
        /\ status = e.status
        /\ labels = {}
        /\ nops = 0
        /\ last = [op |-> "input", a |-> <<reg, hi, lo>>, b |-> 0, label |-> NoLabel,
                   preCur |-> nullptr, preCode |-> nullptr, preReserved |-> 0,
                   again |-> FALSE]

NextLiw == last.op = "input" /\ liw(last.a[1], U32(last.a[2], last.a[3]))

SpecLiw == InitLiw /\ [][NextLiw]_vars

\* The register mnemonics on their own: a fresh emitter of MaxWords words and
\* one call.  The operands n and b range over 0..31, the record flag over both
\* values, the registers over two pairs.  liw takes a 32-bit immediate of its
\* own, so it is called from the inputs with n = b = 0 only.
InsnRegs == {<<3, 4>>, <<31, 0>>}

InitInsn ==
    \E mode \in {FixedSize, AutoGrow}, n \in 0..31, m \in 0..31, setFlags \in BOOLEAN :
        LET e == PPCEmitter(mode, MaxWords * 4, HeapLow) IN
        /\ growMode = mode
        /\ code = e.code
        /\ currentPointer = e.cur
        /\ reservedSize = e.reserved
        /\ autoGrowSize = e.grow
        /\ mem = e.mem
        /\ heap = e.heap
        /\ status = e.status
        /\ labels = {}
        /\ nops = 0
        /\ last = [op |-> "input", a |-> <<n, m, setFlags>>, b |-> 0, label |-> NoLabel,
                   preCur |-> nullptr, preCode |-> nullptr, preReserved |-> 0,
                   again |-> FALSE]

NextInsn ==
    /\ last.op = "input"
    /\ \E regs \in InsnRegs :
          LET t == <<regs[1], regs[2], last.a[1], last.a[2], last.a[3]>> IN
          \/ \E op \in Mnemonics : mnemonic(op, t)
          \/ liu(t)
          \/ setz(t)
          \/ nop
          \/ /\ last.a[1] = 0 /\ last.a[2] = 0
             /\ \E hi \in LiwHalves, lo \in LiwHalves : liw(t[1], U32(hi, lo))

SpecInsn == InitInsn /\ [][NextInsn]_vars

\* loop on its own: a fresh emitter and one call.  The buffer is large enough
\* for the shortest loop, for every loop, or (AutoGrow) is outgrown on the way;
\* the count is zero, one word of liw or two; the body is up to two nops.
LoopSizes == {MaxWords * 4, RegionCap - 4, RegionCap}
LoopCounts == {U32(0, 0), U32(0, 1), U32(0, 32768), U32(1, 0)}
LoopBodies == {<<>>, <<nopWord>>, <<nopWord, nopWord>>}

InitLoop ==
    \E mode \in {FixedSize, AutoGrow}, size \in LoopSizes, counter \in {3, 31},
       iterations \in LoopCounts, body \in LoopBodies :
        LET e == PPCEmitter(mode, size, HeapLow) IN
        /\ growMode = mode
        /\ code = e.code
        /\ currentPointer = e.cur
        /\ reservedSize = e.reserved
        /\ autoGrowSize = e.grow
        /\ mem = e.mem
        /\ heap = e.heap
        /\ status = e.status
        /\ labels = {}
        /\ nops = 0
        /\ last = [op |-> "input", a |-> <<counter, iterations, body>>, b |-> 0,
                   label |-> NoLabel, preCur |-> nullptr, preCode |-> nullptr,
                   preReserved |-> 0, again |-> FALSE]

NextLoop == last.op = "input" /\ loop(last.a[1], last.a[2], last.a[3])

SpecLoop == InitLoop /\ [][NextLoop]_vars

\* A directive, a mnemonic, the two branch forms and setLabel to the cursor, to
\* the word after the branch, to the start of the first block and to the least
\* address a 24-bit absolute branch reaches.
TwinTargets(cursor, label) == {cursor, label.first + 4, HeapLow, INT26_MIN}

NextTwin ==
    \/ db(90)
    \/ nop
    \/ b
    \/ bcx(Ne, FALSE)
    \/ \E label \in labels :
          \E address \in TwinTargets(currentPointer, label) : setLabel(label, address)

SpecTwin == Init /\ [][NextTwin]_vars

\* Each of the sixteen conditional branches, as the first call on a fresh emitter.
AllConds == 0..7

NextCond == nops = 0 /\ \E cond \in AllConds, link \in BOOLEAN : bcx(cond, link)

SpecCond == Init /\ [][NextCond]_vars

\* A fresh emitter of MaxWords words and the operands n, m and setFlags of the
\* one call to come.
InitOperands(ns, ms) ==
    \E mode \in {FixedSize, AutoGrow}, n \in ns, m \in ms, setFlags \in BOOLEAN :
        LET e == PPCEmitter(mode, MaxWords * 4, HeapLow) IN
        /\ growMode = mode
        /\ code = e.code
        /\ currentPointer = e.cur
        /\ reservedSize = e.reserved
        /\ autoGrowSize = e.grow
        /\ mem = e.mem
        /\ heap = e.heap
        /\ status = e.status
        /\ labels = {}
        /\ nops = 0
        /\ last = [op |-> "input", a |-> <<n, m, setFlags>>, b |-> 0, label |-> NoLabel,
                   preCur |-> nullptr, preCode |-> nullptr, preReserved |-> 0,
                   again |-> FALSE]

\* The four-operand float mnemonics: the third argument over every register,
\* the fourth over registers that differ from it in every bit position.
InitFloat == InitOperands(0..31, {0, 1, 2, 4, 8, 16, 31})

NextFloat ==
    /\ last.op = "input"
    /\ \E regs \in InsnRegs, op \in FourOps :
          fourOp(op, <<regs[1], regs[2], last.a[1], last.a[2], last.a[3]>>)

SpecFloat == InitFloat /\ [][NextFloat]_vars

\* The three-GPR arithmetic mnemonics.
InitArith == InitOperands({0, 3, 31}, {0})

NextArith ==
    /\ last.op = "input"
    /\ \E regs \in InsnRegs, op \in ArithOps :
          arith(op, <<regs[1], regs[2], last.a[1], last.a[2], last.a[3]>>)

SpecArith == InitArith /\ [][NextArith]_vars

\* Appends, a branch and its setLabel, and setBuffer on one emitter.
NextCode ==
    \/ \E size \in {0, MaxWords * 4} : setBuffer(UserBase, size)
    \/ db(90)
    \/ dw(305419896)
    \/ b
    \/ \E label \in labels :
          \E address \in {currentPointer, label.first + 4} : setLabel(label, address)

SpecCode == Init /\ [][NextCode]_vars

\* =============================================================== claims
used == currentPointer - code
usedBefore == last.preCur - last.preCode
BranchOps == {"b", "bl", "bc", "bcl"}
AppendOps == {"db", "dh", "dw", "dd", "nop"}
\* v, a width-bit two's complement number, as an integer.
Signed(v, width) == IF v >= 2^(width - 1) THEN v - 2^width ELSE v
\* The byte displacement a branch word of the given type holds.
Displacement(w, type) ==
    IF type = Branch14 THEN Signed(4 * Field(w, 2, 15), 16) ELSE Signed(4 * Field(w, 2, 25), 26)
\* Neither target - from nor target is in the signed range of the branch type.
OutOfRange(type, from, target) ==
    IF type = Branch14
    THEN /\ ~(INT16_MIN <= target - from /\ target - from <= INT16_MAX)
         /\ ~(INT16_MIN <= target /\ target <= INT16_MAX)
    ELSE /\ ~(INT26_MIN <= target - from /\ target - from <= INT26_MAX)
         /\ ~(INT26_MIN <= target /\ target <= INT26_MAX)
\* No byte outside the live allocations has been written.
NoStrayByte == \A a \in Tracked : ~Valid(heap, a, 1) => mem[a] = Junk

\* The used part of the buffer lies inside a live allocation.
InBounds == Valid(heap, code, used)

\* C1: align(n) with n >= 1 leaves the cursor congruent to 0 modulo n, having
\* appended between 0 and n - 1 bytes, all of them zero (stated for the calls
\* that stay inside the buffer).
C1_AlignReachesBoundary ==
    (last.op = "align" /\ last.a >= 1 /\ status = "running" /\ InBounds) =>
        /\ currentPointer % last.a = 0
        /\ used - usedBefore \in 0..(last.a - 1)
        /\ \A i \in usedBefore..(used - 1) : Load(mem, code + i) = 0

\* C2: in FixedSize mode an append that would move the cursor past the reserved
\* end of the buffer ends in the fatal-error state and writes nothing outside
\* the reserved region.
C2_FixedOverflowIsFatal ==
    (growMode = FixedSize /\ last.op \in AppendOps /\ usedBefore + last.b > last.preReserved) =>
        (status = "panic" /\ NoStrayByte)

\* C3: a label-returning branch appends one word with a zero displacement field
\* and returns a label whose address is where that word now lies in the buffer.
C3_LabelAddressesTheWord ==
    (last.op \in BranchOps /\ status = "running" /\ InBounds) =>
        /\ used = usedBefore + 4
        /\ Displacement(WordAt(mem, currentPointer - 4), last.label.second) = 0
        /\ last.label.first = currentPointer - 4

C5_SetLabelIdempotent ==
    [][(/\ last.op = "setLabel" /\ status = "running"
        /\ last'.op = "setLabel" /\ last'.label = last.label /\ last'.a = last.a
        /\ status' = "running")
       => (/\ mem' = mem /\ currentPointer' = currentPointer /\ code' = code
           /\ reservedSize' = reservedSize)]_vars

\* C5 witness: setLabel has been called twice in a row with the same label and
\* target, and returned.
C5_SetLabelRepeated ==
    /\ last.op = "setLabel" /\ last.again /\ status = "running"
    /\ last.a # last.label.first

\* C6: setLabel with a target that is not a multiple of 4 away from the label's
\* address ends in the fatal-error state and leaves memory as it was.
C6_UnalignedLabelIsFatal ==
    [][(last'.op = "setLabel" /\ nops' = nops + 1
        /\ (last'.a - last'.label.first) % 4 # 0)
       => (status' = "panic" /\ mem' = mem)]_vars

\* C6 witness: setLabel has panicked on a displacement off the word grid.
C6_UnalignedLabelPanicked ==
    last.op = "setLabel" /\ (last.a - last.label.first) % 4 # 0 /\ status = "panic"

\* C7: b(ptr) and bl(ptr) end in the fatal-error state whenever ptr minus the
\* cursor is not a multiple of 4.
C7_UnalignedBranchIsFatal ==
    (last.op \in {"b(ptr)", "bl(ptr)"} /\ (last.a - last.preCur) % 4 # 0 /\ InBounds)
        => status = "panic"

\* C8: when neither the displacement nor the target address is in the signed
\* range of the branch form, setLabel and b(ptr)/bl(ptr) can only end in the
\* fatal-error state, with memory, cursor and buffer as they were.
C8_OutOfRangeIsFatal ==
    status = "running" =>
        /\ \A label \in labels, target \in Targets :
              OutOfRange(label.second, label.first, target)
                  => setLabelTo(Self, label, target) = {[Self EXCEPT !.status = "panic"]}
        /\ \A link \in BOOLEAN, target \in Targets :
              OutOfRange(Branch24, currentPointer, target)
                  => bxAddrTo(growMode, Self, link, target)
                         = {[Self EXCEPT !.status = "panic"]}

\* C8 witness: setLabel has panicked on a word-aligned displacement that is out
\* of range in both forms, with the cursor where it was.
C8_OutOfRangePanicked ==
    /\ last.op = "setLabel" /\ status = "panic"
    /\ (last.a - last.label.first) % 4 = 0
    /\ OutOfRange(last.label.second, last.label.first, last.a)
    /\ currentPointer = last.preCur

\* What a call ends in: the emitter's state when it returns, else only how it
\* ended (whatever state a call that never returns leaves behind is out of reach).
Outcome(e) == IF e.status = "running" THEN e ELSE [Self EXCEPT !.status = e.status]
\* L = b() or bl(), then setLabel(L, ptr).
BranchThenSetLabel(link, ptr) ==
    UNION {IF e.status = "running" THEN setLabelTo(e, bxLabel(Self), ptr) ELSE {e}
           : e \in bxTo(growMode, Self, link)}

\* C9: at every cursor position, b(ptr) (bl(ptr)) ends as b() (bl()) followed by
\* setLabel on its label with ptr does: the same state, or fatal in the same
\* cases (stated for a FixedSize buffer with room for the word).
C9_ImmediateIsBranchThenSetLabel ==
    (status = "running" /\ growMode = FixedSize /\ Valid(heap, currentPointer, 4)) =>
        \A link \in BOOLEAN, ptr \in AddrTargets :
            {Outcome(e) : e \in bxAddrTo(growMode, Self, link, ptr)}
                = {Outcome(e) : e \in BranchThenSetLabel(link, ptr)}

\* The PowerPC's addi, addis and ori on a register file of 32-bit values (each a
\* pair of halfwords): rA = 0 reads as the literal zero in addi and addis, whose
\* immediate is sign-extended; ori's is zero-extended.
Add32(x, y) ==
    U32((x.hi + y.hi + (x.lo + y.lo) \div 65536) % 65536, (x.lo + y.lo) % 65536)
Execute(R, w) ==
    LET opcd == Field(w, 26, 31)
        rD == Field(w, 21, 25)
        rA == Field(w, 16, 20)
        imm == Field(w, 0, 15)
        base == IF rA = 0 THEN U32(0, 0) ELSE R[rA]
    IN IF opcd = 14 THEN [R EXCEPT ![rD] = Add32(base, U32(IF imm >= 32768 THEN 65535 ELSE 0, imm))]
       ELSE IF opcd = 15 THEN [R EXCEPT ![rD] = Add32(base, U32(imm, 0))]
       ELSE IF opcd = 24 THEN [R EXCEPT ![rA] = U32(R[rD].hi, Field(Bits(R[rD].lo) \cup Bits(imm), 0, 15))]
       ELSE [r \in DOMAIN R |-> U32(0 - 1, 0 - 1)]
RECURSIVE ExecuteAll(_, _)
ExecuteAll(R, ws) == IF ws = <<>> THEN R ELSE ExecuteAll(Execute(R, Head(ws)), Tail(ws))
\* The words the last call appended, read back from the buffer.
Appended == [i \in 1..((used - usedBefore) \div 4) |-> WordAt(mem, code + usedBefore + 4 * (i - 1))]
SomeRegisters == [r \in 0..31 |-> U32(43981, 4660 + r)]

\* C10: the one or two instructions liw(reg, v) appends, executed on any
\* register file, leave exactly v in reg.
C10_LiwLoadsTheValue ==
    (last.op = "liw" /\ status = "running") =>
        /\ used - usedBefore \in {4, 8}
        /\ ExecuteAll(SomeRegisters, Appended)[last.a[1]] = U32(last.a[2], last.a[3])

\* C10 witness: liw of a value whose low halfword has its top bit set and whose
\* high halfword is zero has appended two instructions.
C10_LiwOfUnsignedHalfword ==
    /\ last.op = "liw" /\ status = "running"
    /\ last.a[2] = 0 /\ last.a[3] = 32768
    /\ used - usedBefore = 8

\* The word the last call appended first, read back from the buffer.
EmittedWord == WordAt(mem, code + usedBefore)
AliasOps == {"slwi", "srwi", "clrlwi", "clrrwi", "rotlwi", "rotrwi", "extlwi", "extrwi"}
\* The rlwinm fields <<sh, mb, me>> each alias stands for, for the operands n, m (the claim's b).
AliasedFields(op, n, m) ==
    CASE op = "slwi" -> <<n, 0, 31 - n>>
      [] op = "srwi" -> <<32 - n, n, 31>>
      [] op = "clrlwi" -> <<0, n, 31>>
      [] op = "clrrwi" -> <<0, 0, 31 - n>>
      [] op = "rotlwi" -> <<n, 0, 31>>
      [] op = "rotrwi" -> <<32 - n, 0, 31>>
      [] op = "extlwi" -> <<m, 0, n - 1>>
      [] op = "extrwi" -> <<m + n, 32 - n, 31>>

\* C11: the word an rlwinm alias appends is the word rlwinm gives for the
\* aliased fields and the same record bit, for all n, b in 0..31.
C11_AliasIsRawRlwinm ==
    (last.op \in AliasOps /\ status = "running") =>
        LET f == AliasedFields(last.op, last.a[3], last.a[4])
        IN /\ used = usedBefore + 4
           /\ EmittedWord = rlwinmWord(last.a[1], last.a[2], f[1], f[2], f[3], last.a[5])

\* C11 witness: srwi by 5 with the record bit has appended rlwinm. with
\* sh = 27, mb = 5, me = 31.
C11_SrwiEmitted ==
    /\ last.op = "srwi" /\ status = "running" /\ last.a[3] = 5 /\ last.a[5]
    /\ Field(EmittedWord, 11, 15) = 27 /\ Field(EmittedWord, 6, 10) = 5
    /\ Field(EmittedWord, 1, 5) = 31 /\ Field(EmittedWord, 26, 31) = 21
    /\ 0 \in EmittedWord

\* C12: every mnemonic, pseudo-ops included, appends exactly 4 bytes.
C12_MnemonicAppendsOneWord ==
    (last.op \in Mnemonics \cup {"liu", "setz", "liw", "nop"} /\ status = "running") =>
        used - usedBefore = 4

\* C12, amended: every mnemonic appends exactly 4 bytes, except the pseudo-ops
\* that stand for two instructions, which append 8: setz always, liu for an
\* immediate of 0x8000 or more, liw for a value that is neither a sign-extended
\* halfword nor a multiple of 0x10000.
C12_MnemonicAppendsOneOrTwoWords ==
    (last.op \in Mnemonics \cup {"liu", "setz", "liw", "nop"} /\ status = "running") =>
        used - usedBefore =
            CASE last.op = "setz" -> 8
              [] last.op = "liu" -> IF imm16(last.a) >= 32768 THEN 8 ELSE 4
              [] last.op = "liw" ->
                    IF \/ (last.a[2] = 0 /\ last.a[3] <= 32767)
                       \/ (last.a[2] = 65535 /\ last.a[3] >= 32768)
                       \/ last.a[3] = 0
                    THEN 4 ELSE 8
              [] OTHER -> 4

\* C12 witness: liu with the immediate 0x8000 has appended li reg, 0 and
\* ori reg, reg, 0x8000.
C12_LiuTookTwoWords ==
    /\ last.op = "liu" /\ status = "running" /\ imm16(last.a) = 32768
    /\ used - usedBefore = 8
    /\ EmittedWord = liWord(last.a[1], 0)
    /\ WordAt(mem, code + usedBefore + 4) = oriWord(last.a[1], last.a[1], 32768)

\* The mnemonics of the model that take setFlags, addic apart.
FlagOps == (Mnemonics \ {"addic", "li", "lis"})

\* C13: with setFlags, a mnemonic appends the word it appends without it, with
\* bit 0 set.
C13_SetFlagsSetsBitZero ==
    (last.op \in FlagOps /\ last.a[5] /\ status = "running") =>
        EmittedWord = wordOf(last.op, [last.a EXCEPT ![5] = FALSE]) \cup {0}

\* The words of a counted loop over body words: liw, the body, addic. by -1 and
\* a bne back over the body and the addic.
CountedLoop(counter, iterations, n) ==
    liwWords(counter, iterations) \o [i \in 1..n |-> nopWord]
    \o <<addicWord(counter, counter, 65535, TRUE),
         bcxWord(Ne, FALSE) \cup Masked(0 - (4 * n + 4), 65532, 16)>>

\* C14: in either growth mode loop with iterations >= 1 appends exactly liw, the
\* body, addic. and a bne that branches back by body bytes + 4, to the first
\* body instruction where it now lies; with iterations = 0 it appends nothing
\* and changes nothing.
C14_LoopEmitsCountedLoop ==
    (last.op = "loop" /\ status = "running" /\ InBounds) =>
        IF last.a[2] = 0 /\ last.a[3] = 0
        THEN /\ currentPointer = last.preCur /\ code = last.preCode
             /\ \A a \in Tracked : mem[a] = Junk
        ELSE /\ used - usedBefore = last.b
             /\ Appended = CountedLoop(last.a[1], U32(last.a[2], last.a[3]), last.a[4])

\* A byte memory may have held instead of Junk.
OtherJunk == (Junk + 85) % 256
\* The emitter e over a buffer that held something else: every byte outside
\* the used region [code, cursor) differs.
Twin(e) ==
    [e EXCEPT !.mem = [a \in DOMAIN e.mem |->
                          IF a >= e.code /\ a < e.cur THEN e.mem[a] ELSE OtherJunk]]
\* What a caller reads of an emitter a call returned from: where the buffer is
\* and the bytes of its used region; of a call that did not return, how it ended.
UsedBytes(e) == [i \in 0..(getCodeSize(e) - 1) |-> Load(e.mem, e.code + i)]
View(e) ==
    IF e.status = "running" THEN <<e.status, e.code, e.cur, UsedBytes(e)>> ELSE <<e.status>>
\* Every call of NextTwin on e, with the outcomes it has.
CallsOn(e) ==
    {<<"db", write(growMode, e, bytesOf(90, 1))>>,
     <<"nop", write32(growMode, e, nopWord)>>,
     <<"b", bxTo(growMode, e, FALSE)>>,
     <<"bne", bcxTo(growMode, e, Ne, FALSE)>>}
    \cup UNION {{<<"setLabel", label, address, setLabelTo(e, label, address)>> :
                    address \in TwinTargets(e.cur, label)} : label \in labels}
Seen(call) == [i \in 1..Len(call) |->
                  IF i < Len(call) THEN call[i] ELSE {View(x) : x \in call[i]}]

\* C15: two emitters at the same base that agree on their used regions and
\* differ in everything else the buffer holds agree again after every call: the
\* bytes of the used region do not depend on what memory held before.
C15_UsedBytesIgnorePriorContent ==
    status = "running" =>
        {Seen(call) : call \in CallsOn(Self)} = {Seen(call) : call \in CallsOn(Twin(Self))}

\* C15 witness: setLabel has patched a branch word inside the used region of a
\* buffer that has grown, while memory around the used region still holds what
\* it held before.
C15_PatchedInsideGrownBuffer ==
    /\ last.op = "setLabel" /\ status = "running" /\ growMode = AutoGrow
    /\ code # nullptr /\ reservedSize > MaxWords * 4
    /\ last.label.first >= code /\ last.label.first + 4 <= currentPointer
    /\ Displacement(WordAt(mem, last.label.first), last.label.second) # 0
    /\ Twin(Self).mem # mem

\* The block the emitter has released that the label's address lies in (the
\* set is empty when there is none).
StaleIn(h, label) ==
    {r \in HeapRegions : h[r].st = "released" /\ r <= label.first /\ label.first < r + h[r].size}
\* x is in the signed range of the branch type's field.
InRange(type, x) ==
    IF type = Branch14 THEN INT16_MIN <= x /\ x <= INT16_MAX
    ELSE INT26_MIN <= x /\ x <= INT26_MAX
\* No byte of memory outside [addr, addr + 4) differs between m1 and m2.
SameBut(m1, m2, addr) == \A a \in Tracked : (a < addr \/ a >= addr + 4) => m1[a] = m2[a]

\* The released blocks among them that the branch did not itself outgrow: its
\* word ended short of the block's end, so the grow came after the emission.
OutgrownLater(h, label) == {r \in StaleIn(h, label) : label.first + 4 < r + h[r].size}

\* C16 as stated: in AutoGrow mode, when the buffer has grown between the
\* emission of a branch and setLabel on its label (here to the cursor, at a
\* word-aligned displacement), setLabel never ends in the fatal-error state,
\* and when it returns the branch word at the label's offset in the live buffer
\* has a zero displacement field.
C16_StaleLabelNeverFatal ==
    [][(/\ growMode = AutoGrow /\ last'.op = "setLabel" /\ nops' = nops + 1
        /\ OutgrownLater(heap, last'.label) # {} /\ last'.a = currentPointer
        /\ (last'.a - last'.label.first) % 4 = 0)
       => (/\ status' # "panic"
           /\ status' = "running" =>
                \A r \in OutgrownLater(heap, last'.label) :
                    Displacement(WordAt(mem', code' + (last'.label.first - r)),
                                 last'.label.second) = 0)]_vars

\* C16, amended: setLabel on such a label neither rebases it nor notices.  It
\* ends in the fatal-error state exactly when the displacement from the
\* recorded address is unaligned or out of range in both forms; otherwise it
\* writes the resolved word at the recorded address, in the released block; in
\* every case the buffer stays where it is and no byte of memory outside the
\* recorded word changes, so the branch word in the live buffer keeps the
\* displacement field it had.
C16_StaleLabelIsPatchedInPlace ==
    [][(/\ growMode = AutoGrow /\ last'.op = "setLabel" /\ nops' = nops + 1
        /\ StaleIn(heap, last'.label) # {})
       => LET at == last'.label.first
              type == last'.label.second
              disp == last'.a - at
              w == WordAt(mem', at)
          IN /\ (status' = "panic") = (disp % 4 # 0 \/ OutOfRange(type, at, last'.a))
             /\ code' = code /\ currentPointer' = currentPointer
             /\ reservedSize' = reservedSize /\ heap' = heap
             /\ SameBut(mem', mem, at)
             /\ (status' # "running" => mem' = mem)
             /\ status' = "running" =>
                  IF InRange(type, disp)
                  THEN 1 \notin w /\ Displacement(w, type) = disp
                  ELSE 1 \in w /\ Displacement(w, type) = last'.a - (last'.a % 4)
         ]_vars

\* C16 witness: a branch emitted at the start of a buffer with room to spare,
\* the buffer outgrown by a later append, and setLabel having resolved the word
\* in the released block while the word in the live buffer is unresolved.
C16_StaleLabelPatched ==
    /\ last.op = "setLabel" /\ status = "running" /\ growMode = AutoGrow
    /\ \E r \in StaleIn(heap, last.label) :
          /\ last.label.first = r /\ heap[r].size = MaxWords * 4 /\ code # r
          /\ Displacement(WordAt(mem, code), last.label.second) = 0
          /\ Displacement(WordAt(mem, r), last.label.second) = 4
          /\ last.a = r + 4

\* C17: the array the caller hands to setBuffer is never released by the emitter.
C17_CallerBufferNeverReleased == heap[UserBase].st = "live"

\* C18: in AutoGrow mode an append that fits the reserved size, the one that
\* exactly fills the buffer included, does not reallocate.
C18_GrowOnlyOnOverflow ==
    (/\ growMode = AutoGrow /\ last.op \in AppendOps /\ status = "running"
     /\ usedBefore + last.b <= last.preReserved)
        => (code = last.preCode /\ reservedSize = last.preReserved)

\* C19: an append that reallocates raises the reserved size by the grow step,
\* leaves the grow step as it is, carries the used bytes over to the new block
\* and writes its value right after them, the cursor ending behind it.
C19_GrowCarriesTheCodeOver ==
    [][(/\ growMode = AutoGrow /\ last'.op \in AppendOps /\ nops' = nops + 1
        /\ status' = "running" /\ code' # code)
       => (/\ reservedSize' = reservedSize + autoGrowSize
           /\ autoGrowSize' = autoGrowSize
           /\ \A i \in 0..(used - 1) : Load(mem', code' + i) = Load(mem, code + i)
           /\ currentPointer' = code' + used + last'.b
           /\ last'.op # "nop" =>
                 \A i \in 1..last'.b :
                     Load(mem', code' + used + i - 1) = bytesOf(last'.a, last'.b)[i])]_vars

\* C19 witness: an append has moved a buffer that held code into a new block of
\* the old reserved size plus the grow step.
C19_GrownWithCode ==
    /\ growMode = AutoGrow /\ last.op \in AppendOps /\ status = "running"
    /\ code # last.preCode /\ usedBefore > 0 /\ last.preCode \in Regions
    /\ heap[code].size = last.preReserved + autoGrowSize
    /\ reservedSize = heap[code].size

\* C20: setLabel on a Branch14 label stores the displacement, when it is in
\* the signed 16-bit range, in bits 2..15 with bit 1 clear; else the target
\* address, which is then in that range, in bits 2..15 with bit 1 (AA) set.
\* Bit 0 and bits 16..31 of the word are as they were.
C20_Branch14Patch ==
    [][(/\ last'.op = "setLabel" /\ nops' = nops + 1 /\ status' = "running"
        /\ last'.label.second = Branch14)
       => LET at == last'.label.first
              target == last'.a
              disp == target - at
              old == WordAt(mem, at)
              new == WordAt(mem', at)
              kept == {0} \cup (16..31)
          IN /\ new \cap kept = old \cap kept
             /\ IF INT16_MIN <= disp /\ disp <= INT16_MAX
                THEN 1 \notin new /\ 4 * Field(new, 2, 15) = disp % 65536
                ELSE /\ INT16_MIN <= target /\ target <= INT16_MAX
                     /\ 1 \in new
                     /\ 4 * Field(new, 2, 15) = (target - (target % 4)) % 65536]_vars

\* C20 witness: a conditional branch in a block out of 14-bit reach of the
\* target has been resolved in absolute form, its opcode, BO and BI intact.
C20_AbsoluteFormTaken ==
    /\ last.op = "setLabel" /\ status = "running" /\ last.label.second = Branch14
    /\ Valid(heap, last.label.first, 4)
    /\ ~(INT16_MIN <= last.a - last.label.first /\ last.a - last.label.first <= INT16_MAX)
    /\ 1 \in WordAt(mem, last.label.first)
    /\ 4 * Field(WordAt(mem, last.label.first), 2, 15) = last.a
    /\ WordAt(mem, last.label.first) \cap ({0} \cup (16..31)) = bcxWord(Ne, FALSE)

\* C21: setLabel on a Branch24 label stores the displacement, when it is in
\* the signed 26-bit range, in bits 2..25 with bit 1 clear; else the target
\* address, which is then in that range, in bits 2..25 with bit 1 (AA) set.
\* Bit 0 and bits 26..31 of the word are as they were.
C21_Branch24Patch ==
    [][(/\ last'.op = "setLabel" /\ nops' = nops + 1 /\ status' = "running"
        /\ last'.label.second = Branch24)
       => LET at == last'.label.first
              target == last'.a
              disp == target - at
              old == WordAt(mem, at)
              new == WordAt(mem', at)
              kept == {0} \cup (26..31)
          IN /\ new \cap kept = old \cap kept
             /\ IF INT26_MIN <= disp /\ disp <= INT26_MAX
                THEN 1 \notin new /\ 4 * Field(new, 2, 25) = disp % (2^26)
                ELSE /\ INT26_MIN <= target /\ target <= INT26_MAX
                     /\ 1 \in new
                     /\ 4 * Field(new, 2, 25) = (target - (target % 4)) % (2^26)]_vars

\* C21 witness: an unconditional branch whose target is out of reach of a
\* displacement has been resolved in absolute form, its opcode intact.
C21_AbsoluteFormTaken ==
    /\ last.op = "setLabel" /\ status = "running" /\ last.label.second = Branch24
    /\ Valid(heap, last.label.first, 4)
    /\ last.a - last.label.first < INT26_MIN /\ last.a = INT26_MIN
    /\ 1 \in WordAt(mem, last.label.first)
    /\ Field(WordAt(mem, last.label.first), 2, 25) = 2^23
    /\ WordAt(mem, last.label.first) \cap ({0} \cup (26..31)) = bxWord(FALSE)

\* C22: setLabel leaves the cursor, the base pointer, the reserved size, the
\* grow step and the allocations as they are, and changes no byte of memory
\* outside the word at the label's address.
C22_SetLabelTouchesOneWord ==
    [][(last'.op = "setLabel" /\ nops' = nops + 1)
       => (/\ currentPointer' = currentPointer /\ code' = code
           /\ reservedSize' = reservedSize /\ autoGrowSize' = autoGrowSize
           /\ heap' = heap
           /\ SameBut(mem', mem, last'.label.first))]_vars

\* C22 witness: setLabel has resolved the second word of a buffer whose first
\* word, a nop, and whose cursor are as they were.
C22_PatchedBesideANop ==
    /\ last.op = "setLabel" /\ status = "running"
    /\ last.label.first = code + 4 /\ used = 8 /\ Valid(heap, code, 8)
    /\ currentPointer = last.preCur
    /\ WordAt(mem, code) = nopWord
    /\ Displacement(WordAt(mem, code + 4), last.label.second) # 0

\* C23: a conditional branch appends the word with primary opcode 16, BO = 12
\* (branch if the CR bit is set) for the condition ordinals 0..3 and BO = 4
\* (if it is clear) for 4..7, BI = ordinal & 3, a zero displacement field, AA
\* clear, and LK set exactly for the linking forms: 0x40820000 for bne,
\* 0x41820000 for beq.
C23_ConditionalBranchWord ==
    (last.op \in {"bc", "bcl"} /\ status = "running" /\ InBounds) =>
        /\ used = usedBefore + 4
        /\ Field(EmittedWord, 26, 31) = 16
        /\ Field(EmittedWord, 21, 25) = (IF last.a <= 3 THEN 12 ELSE 4)
        /\ Field(EmittedWord, 16, 20) = last.a % 4
        /\ Field(EmittedWord, 1, 15) = 0
        /\ (0 \in EmittedWord) = (last.op = "bcl")
        /\ (last.a = 6 /\ last.op = "bc") => EmittedWord = Word(16514, 0)
        /\ (last.a = 2 /\ last.op = "bc") => EmittedWord = Word(16770, 0)

\* C23 witness: bsol (ordinal 3, linking) has appended 0x41830001.
C23_BsolEmitted ==
    /\ last.op = "bcl" /\ last.a = 3 /\ status = "running" /\ InBounds
    /\ EmittedWord = Word(16771, 1)

\* C24: outside the fatal-error state the reserved size and the grow step are
\* multiples of 4; the constructor, setBuffer and setAutoGrowSize end in the
\* fatal-error state when given a size that is not.
C24_SizesAreWordAligned ==
    /\ status # "panic" => (reservedSize % 4 = 0 /\ autoGrowSize % 4 = 0)
    /\ (last.op = "PPCEmitter" /\ last.a % 4 # 0) => status = "panic"
    /\ (last.op = "setBuffer" /\ last.b % 4 # 0) => status = "panic"
    /\ (last.op = "setAutoGrowSize" /\ last.a % 4 # 0) => status = "panic"

\* C24 witness: a buffer of an aligned size has grown by an aligned step that
\* setAutoGrowSize set.
C24_GrownByASetStep ==
    /\ status = "running" /\ growMode = AutoGrow /\ last.op \in AppendOps
    /\ code # last.preCode /\ autoGrowSize = 4 /\ reservedSize = last.preReserved + 4
    /\ reservedSize % 4 = 0

\* C25 as stated: a four-operand float mnemonic called as (dest, a, b, c)
\* encodes dest at bit 21, a at bit 16, the third argument at bit 11 and the
\* fourth at bit 6.
C25_ThirdArgumentAtBit11 ==
    (last.op \in FourOps /\ status = "running") =>
        /\ Field(EmittedWord, 21, 25) = last.a[1]
        /\ Field(EmittedWord, 16, 20) = last.a[2]
        /\ Field(EmittedWord, 11, 15) = last.a[3]
        /\ Field(EmittedWord, 6, 10) = last.a[4]

\* C25, amended: called as (dest, a, b, c), it appends one word with dest at
\* bit 21, a at bit 16, the third argument b (the second factor of the
\* product) at bit 6 and the fourth argument c (the operand added or
\* subtracted) at bit 11, and the record bit as asked.
C25_ThirdArgumentAtBit6 ==
    (last.op \in FourOps /\ status = "running") =>
        /\ used = usedBefore + 4
        /\ Field(EmittedWord, 21, 25) = last.a[1]
        /\ Field(EmittedWord, 16, 20) = last.a[2]
        /\ Field(EmittedWord, 6, 10) = last.a[3]
        /\ Field(EmittedWord, 11, 15) = last.a[4]
        /\ (0 \in EmittedWord) = last.a[5]

\* C25 witness: fmadd (f3, f4, f1, f16) has appended 0xFC64807A.
C25_FmaddEmitted ==
    /\ last.op = "fmadd" /\ status = "running"
    /\ last.a = <<3, 4, 1, 16, FALSE>>
    /\ EmittedWord = Word(64612, 32890)

\* C26: no two of the three-GPR arithmetic mnemonics append the same word for
\* the same operands and record bit.
C26_ArithmeticWordsDiffer ==
    (last.op \in ArithOps /\ status = "running") =>
        \A other \in ArithOps \ {last.op} :
            EmittedWord # arithWord(other, last.a[1], last.a[2], last.a[3], last.a[5])

\* C27: in AutoGrow mode, whatever word-aligned grow step is set, after every
\* append of 1, 2, 4 or 8 bytes the used size is at most the reserved size and
\* the used bytes lie inside the allocated region.
C27_AutoGrowKeepsUsedInsideReserved ==
    (growMode = AutoGrow /\ last.op \in {"db", "dh", "dw", "dd"} /\ status = "running") =>
        /\ used <= reservedSize
        /\ InBounds

\* C28: in AutoGrow mode, a relative-form word appended by b(ptr) or bl(ptr)
\* holds ptr minus the address the word resides at in the current buffer, also
\* when the append of the word reallocates.
C28_RelativeToWhereTheWordIs ==
    (/\ growMode = AutoGrow /\ last.op \in {"b(ptr)", "bl(ptr)"} /\ status = "running"
     /\ InBounds /\ 1 \notin EmittedWord) =>
        Displacement(EmittedWord, Branch24) = last.a - (code + usedBefore)

\* The bytes the call recorded in l appends.
NewBytes(l) == IF l.op = "b" THEN WordBytes(bxWord(FALSE)) ELSE bytesOf(l.a, l.b)
\* The step carries every used byte over to the same offset of the (possibly
\* new) buffer, the bytes at the addresses in except apart.
KeptBut(except) ==
    \A i \in 0..(used - 1) :
        (code + i) \notin except => Load(mem', code' + i) = Load(mem, code + i)
\* A call that appends: the size grows by what it appends, behind what was there.
AppendStep ==
    (last'.op \in {"db", "dw", "b"}) =>
        /\ used' = used + last'.b
        /\ KeptBut({})
        /\ \A i \in 1..last'.b : Load(mem', code' + used + i - 1) = NewBytes(last')[i]
\* What a call of NextCode that returns does to the used size and bytes;
\* setLabel is held to keep every used byte but those in patched(label).
CodeStep(patched(_)) ==
    (nops' = nops + 1 /\ status' = "running") =>
        /\ AppendStep
        /\ (last'.op = "setBuffer") => used' = 0
        /\ (last'.op = "setLabel") => (used' = used /\ KeptBut(patched(last'.label)))
NoBytes(label) == {}
WordOf(label) == label.first..(label.first + 3)

\* C29 as stated: from construction or setBuffer on, getCodeSize() is the
\* number of bytes appended and the used region holds those bytes, in the
\* order they were appended, through appends, setLabel calls and reallocations.
C29_UsedRegionIsTheAppends ==
    (nops = 0 => used = 0) /\ [][CodeStep(NoBytes)]_vars

\* C29, amended: the same, except that the four bytes of a branch word that
\* setLabel has resolved hold what setLabel wrote.
C29_UsedRegionIsTheAppendsAsPatched ==
    (nops = 0 => used = 0) /\ [][CodeStep(WordOf)]_vars

\* C29 witness: in a buffer that has grown, behind a word carried over, setLabel
\* has patched the branch word that ends the used region.
C29_PatchedBehindCarriedWord ==
    /\ last.op = "setLabel" /\ status = "running" /\ growMode = AutoGrow
    /\ reservedSize > MaxWords * 4 /\ used = 8
    /\ WordAt(mem, code) = Word(4660, 22136)
    /\ last.label.first = code + 4
    /\ WordAt(mem, code + 4) = bxWord(FALSE) \cup {2}

\* C30: the fatal-error state is absorbing: the operation that panicked never
\* returns, and no later step changes the buffer contents, the cursor, the
\* base pointer or the reserved size.
C30_PanicIsAbsorbing ==
    [][status = "panic" =>
          /\ status' = "panic"
          /\ UNCHANGED <<mem, currentPointer, code, reservedSize>>]_vars

\* C30 witness: setBuffer has panicked on an unaligned size, after it stored
\* the pointer and the size.
C30_SetBufferPanicked ==
    /\ status = "panic" /\ last.op = "setBuffer"
    /\ code = UserBase /\ currentPointer = UserBase /\ reservedSize = 6


====
